---- MODULE Spec2Model ----
(***************************************************************************)
(* Model of the real-debrid-uptime check engine: the scheduler             *)
(* (scheduler.ts), the history store (storage.ts), the on-demand check     *)
(* handler (api/routes.ts) and the shutdown handler (index.ts).            *)
(*                                                                         *)
(* Node runs every callback to its next await without interleaving, so     *)
(* one action is one callback: a call of start() or stop(), a timer        *)
(* firing, the settling of an awaited remote call, an HTTP request.        *)
(* Remote calls (checkUser, checkStream) are the environment: their        *)
(* results are chosen nondeterministically when they settle.               *)
(***************************************************************************)
EXTENDS Integers, Sequences, FiniteSets, TLC

VARIABLES
  now,        \* wall clock, Date.now(), in ms
  token,      \* process.env.REAL_DEBRID_API_KEY is set
  config,     \* what getStreamsConfig() returns now: [apiCheck, streams]
  file,       \* the backing file of the history store: [exists, lines]
  lastRun,    \* state.lastRun
  lastError,  \* state.lastError
  timeoutId,  \* scheduler.ts timeoutId
  inFlight,   \* scheduler.ts inFlight
  stopping,   \* scheduler.ts stopping
  timers,     \* pending setTimeout callbacks of scheduleNext
  cycles,     \* the runCheck() invocations that are suspended at an await
  cycleSeq,   \* number of runCheck() invocations so far
  stops,      \* the unresolved promises of stop(): the cycles each found in flight
  closing,    \* server.close() has been called by the shutdown handler
  exited,     \* process.exit(0) has run
  checks,     \* POST /status/check requests suspended at await checkUser
  checkSeq,   \* number of POST /status/check requests so far
  unhandled,  \* an exception left runCheck (unhandled rejection)
  appended,   \* history: ids of the cycles whose record was appended
  failed,     \* history: ids of the cycles that ended in the catch block
  awaited,    \* history: the cycles found in flight by a stop() that has resolved
  diskOp,     \* history: the last call of the store (append, readAll) and its result
  probe,      \* the checkStream() invocation that is suspended at an await
  pending,    \* the request that invocation waits for, and whether a timer bounds it
  outcome,    \* the record of the stream that the scheduler puts in the entry
  applied,    \* the last call of a pure function: its arguments and its result
  intervalEnv, \* process.env.CHECK_INTERVAL_SECONDS
  startTime,  \* state.startTime
  response,   \* the last answer of an HTTP handler, as its caller holds it
  streamsJson, \* the file streams.json
  cachedStreamsConfig \* config.ts cachedStreamsConfig

vars == <<now, token, config, file, lastRun, lastError, timeoutId, inFlight,
          stopping, timers, cycles, cycleSeq, stops, closing, exited, checks,
          checkSeq, unhandled, appended, failed, awaited, diskOp, probe,
          pending, outcome, applied, intervalEnv, startTime, response,
          streamsJson, cachedStreamsConfig>>

\* The variables that no step of a cycle, of the shutdown or of the
\* on-demand check writes: those of the store calls and of the stream checker
\* taken alone, and restVars.
restVars == <<applied, intervalEnv, startTime, response, streamsJson>>
aloneVars == <<diskOp, probe, pending, outcome, restVars>>

----
\* Bounds of the model.
MaxTicks == 1
MaxCycles == 3
MaxStoreCycles == 2
MaxChecks == 1

\* Program constants.
RETENTION_DAYS == 7
MAX_AGE_MS == RETENTION_DAYS * 24 * 60 * 60 * 1000

\* The clock advances in steps of half a retention window, so that a record
\* can be younger than, exactly as old as, or older than the window.
TickMs == MAX_AGE_MS \div 2
InitNow == MAX_AGE_MS
MaxNow == InitNow + MaxTicks * TickMs

NULL == [null |-> TRUE]
UNSET == [unset |-> TRUE]
MISSING == [exists |-> FALSE, lines |-> <<>>]
EmptyMap == [x \in {} |-> x]

----
\* Values.

\* Date.prototype.toISOString and new Date(s).getTime(): the ISO string
\* keeps the millisecond value; a string that is no date parses to NaN.
NaN == -1
toISOString(ms) == [iso |-> ms]
getTime(s) == IF "iso" \in DOMAIN s THEN s.iso ELSE NaN

\* JSON.stringify of an entry gives one line, JSON.parse gives it back.
stringify(e) == [json |-> e]
parse(line) == line.json
Garbage == [garbage |-> TRUE]
parses(line) == "json" \in DOMAIN line

Configs ==
  { [apiCheck |-> TRUE, streams |-> <<>>],
    [apiCheck |-> TRUE, streams |-> <<"a">>],
    [apiCheck |-> FALSE, streams |-> <<"a", "b">>],
    [apiCheck |-> FALSE, streams |-> <<>>] }

\* config.ts: streams.json. The file is missing, or it holds a text that is
\* Garbage or the JSON of a value; the value read has an apiCheck flag and a
\* list of stream definitions, or lacks them.
NoStreamsJson == [exists |-> FALSE, text |-> Garbage]
StreamsJson(value) == [exists |-> TRUE, text |-> stringify(value)]
ItemA == [id |-> "a", type |-> "hash", hash |-> "abc"]
ItemB == [id |-> "b", type |-> "download", url |-> "d/ID1"]
ItemNoTarget == [id |-> "c", type |-> "hash"]
ItemNoId == [type |-> "download", url |-> "d/ID1"]

\* The filter of getStreamsConfig (lines 81-88).
isStreamDef(item) ==
  /\ "id" \in DOMAIN item
  /\ "type" \in DOMAIN item
  /\ \/ item.type = "hash" /\ "hash" \in DOMAIN item
     \/ item.type = "download" /\ "url" \in DOMAIN item

\* getStreamsConfig, lines 68-94: what a call that finds no cached value
\* reads from the file. A configuration keeps the ids of its streams.
DefaultStreamsConfig == [apiCheck |-> TRUE, streams |-> <<>>]
loadStreamsConfig(f) ==
  IF ~f.exists THEN DefaultStreamsConfig
  ELSE IF ~parses(f.text) THEN DefaultStreamsConfig
  ELSE LET parsed == parse(f.text)
           defs == IF "streams" \in DOMAIN parsed
                   THEN SelectSeq(parsed.streams, isStreamDef)
                   ELSE <<>>
       IN IF "apiCheck" \notin DOMAIN parsed THEN DefaultStreamsConfig
          ELSE [apiCheck |-> parsed.apiCheck,
                streams |-> [k \in 1..Len(defs) |-> defs[k].id]]

\* getStreamsConfig (lines 67-95): the cached value when there is one.
getStreamsConfig(cached, f) ==
  IF cached # [null |-> TRUE] THEN cached ELSE loadStreamsConfig(f)

\* The file when the process starts.
StreamsFiles ==
  { NoStreamsJson,
    StreamsJson([apiCheck |-> TRUE, streams |-> <<ItemA>>]),
    StreamsJson([apiCheck |-> FALSE,
                 streams |-> <<ItemA, ItemNoTarget, ItemB, ItemNoId>>]),
    StreamsJson([apiCheck |-> FALSE]) }

\* Results of checkUser (rdClient.ts): it never throws.
ApiResults ==
  { [success |-> TRUE, httpStatus |-> 200],
    [success |-> FALSE, httpStatus |-> 401, error |-> "bad_token"] }

\* A result of checkStream, and THROW for a rejected promise: the scheduler
\* tells the two apart and copies the fields of a result as they are.
THROW == [throw |-> TRUE]
StreamResults == { [success |-> TRUE, httpStatus |-> 200] }

AppendError == [message |-> "EACCES"]

\* The backing file when the process starts: none, a history written by an
\* earlier run (one record now exactly as old as the window, one younger),
\* or a history with a line that is no JSON.
OldLine == stringify([timestamp |-> toISOString(0)])
MidLine == stringify([timestamp |-> toISOString(TickMs)])
InitFiles ==
  { MISSING,
    [exists |-> TRUE, lines |-> <<OldLine, MidLine>>],
    [exists |-> TRUE, lines |-> <<MidLine, Garbage>>] }

----
\* storage.ts

\* loadEntries: a missing file, or a file with a line that does not parse,
\* is an empty history.
\* Faulty variant: the stored history is never read back.
loadEntriesEmpty(f) == <<>>
loadEntries(f) ==
  IF ~f.exists THEN <<>>
  ELSE IF \E k \in 1..Len(f.lines) : ~parses(f.lines[k]) THEN <<>>
  ELSE [k \in 1..Len(f.lines) |-> parse(f.lines[k])]

Fresh(e, t) == getTime(e.timestamp) > t - MAX_AGE_MS

\* Faulty variant: nothing is pruned.
pruneKeepAll(entries, t) == entries
prune(entries, t) == SelectSeq(entries, LAMBDA e : Fresh(e, t))

\* append: load, push, prune against the clock at write time, rewrite.
\* Faulty variant: the entry is pushed twice.
appendTwice(f, entry, t) ==
  LET entries == Append(Append(loadEntries(f), entry), entry)
      pruned == prune(entries, t)
  IN [exists |-> TRUE,
      lines |-> [k \in 1..Len(pruned) |-> stringify(pruned[k])]]
append(f, entry, t) ==
  LET entries == Append(loadEntries(f), entry)
      pruned == prune(entries, t)
  IN [exists |-> TRUE,
      lines |-> [k \in 1..Len(pruned) |-> stringify(pruned[k])]]

\* readAll (lines 77-80): load and prune, nothing is written.
\* Faulty variant: the loaded history is returned as it is.
readAllNoPrune(f, t) == loadEntries(f)
readAll(f, t) == prune(loadEntries(f), t)

----
\* scheduler.ts

\* runCheck, the per-stream loop body (lines 53-74): the result of
\* checkStream is copied into the record of the stream; a rejected check
\* gives {success: false, errorType: "unknown"}; then the next stream.
streamRecord(res) ==
  IF res = THROW THEN [success |-> FALSE, errorType |-> "unknown"] ELSE res

\* Faulty variant: a rejected check ends the loop without a record.
streamStepAbort(c, res) ==
  IF res = THROW THEN [c EXCEPT !.pc = "append"]
  ELSE LET id == config.streams[c.i]
           e == ("streams" :> ((id :> streamRecord(res)) @@ c.entry.streams))
                  @@ c.entry
       IN [c EXCEPT !.entry = e,
                    !.i = c.i + 1,
                    !.pc = IF c.i = Len(config.streams) THEN "append"
                           ELSE "stream"]
\* Faulty variant: every record is written under the first identifier.
streamStepSameKey(c, res) ==
  LET id == config.streams[1]
      e == ("streams" :> ((id :> streamRecord(res)) @@ c.entry.streams))
             @@ c.entry
  IN [c EXCEPT !.entry = e,
               !.i = c.i + 1,
               !.pc = IF c.i = Len(config.streams) THEN "append"
                      ELSE "stream"]
streamStep(c, res) ==
  LET id == config.streams[c.i]
      e == ("streams" :> ((id :> streamRecord(res)) @@ c.entry.streams))
             @@ c.entry
  IN [c EXCEPT !.entry = e,
               !.i = c.i + 1,
               !.pc = IF c.i = Len(config.streams) THEN "append"
                      ELSE "stream"]

\* runCheck, lines 51-52: after the API check, the stream loop is entered
\* when streams are configured and a token is set; else the record is
\* appended at once.
\* Faulty variant: the record is appended after the API check, the streams
\* unchecked.
afterApiSkipsStreams(c) == [c EXCEPT !.pc = "append"]
afterApi(c) ==
  IF Len(config.streams) > 0 /\ token
  THEN [c EXCEPT !.pc = "stream", !.i = 1,
                 !.entry = ("streams" :> EmptyMap) @@ c.entry]
  ELSE [c EXCEPT !.pc = "append"]

\* runCheck, lines 31-41: the entry is stamped when the cycle begins.
\* Faulty variant: the API check is run without a token.
runCheckEnterNoToken(id, t) ==
  LET c == [id |-> id, pc |-> "api", i |-> 0,
            entry |-> [timestamp |-> toISOString(t)]]
  IN IF config.apiCheck THEN c ELSE afterApi(c)
runCheckEnter(id, t) ==
  LET c == [id |-> id, pc |-> "api", i |-> 0,
            entry |-> [timestamp |-> toISOString(t)]]
  IN IF config.apiCheck /\ token THEN c ELSE afterApi(c)

\* runCheck, lines 42-48.
apiRecord(res) == res

\* err instanceof Error ? err.message : String(err) (line 112): the text
\* that lastError holds.
errorMessage(err) ==
  IF "message" \in DOMAIN err THEN [text |-> err.message]
  ELSE [text |-> err.value]

\* runCheck, the catch block (lines 111-118).
\* Faulty variant: the error is rethrown.
catchRethrow(err, le) == [lastError |-> le, propagated |-> TRUE]
catchBlock(err, le) == [lastError |-> errorMessage(err), propagated |-> FALSE]

\* config.ts. The value of an environment variable is UNSET or a string,
\* [value |-> its characters].
DEFAULT_CHECK_INTERVAL_SECONDS == 300
DigitOf ==
  ("0" :> 0) @@ ("1" :> 1) @@ ("2" :> 2) @@ ("3" :> 3) @@ ("4" :> 4)
    @@ ("5" :> 5) @@ ("6" :> 6) @@ ("7" :> 7) @@ ("8" :> 8) @@ ("9" :> 9)
isDigit(ch) == ch \in DOMAIN DigitOf

\* parseInt(raw, 10): leading blanks are skipped, a sign is read, then the
\* digits up to the first other character; without a digit the result is
\* NaN, which is not finite.
RECURSIVE skipBlanks(_, _)
skipBlanks(chars, k) ==
  IF k <= Len(chars) /\ chars[k] = " " THEN skipBlanks(chars, k + 1) ELSE k
RECURSIVE readDigits(_, _, _)
readDigits(chars, k, acc) ==
  IF k > Len(chars) \/ ~isDigit(chars[k]) THEN acc
  ELSE readDigits(chars, k + 1, acc * 10 + DigitOf[chars[k]])
parseInt(chars) ==
  LET b == skipBlanks(chars, 1)
      signed == b <= Len(chars) /\ chars[b] \in {"-", "+"}
      d == IF signed THEN b + 1 ELSE b
  IN IF d > Len(chars) \/ ~isDigit(chars[d])
     THEN [finite |-> FALSE, n |-> 0]
     ELSE [finite |-> TRUE,
           n |-> IF signed /\ chars[b] = "-"
                 THEN 0 - readDigits(chars, d, 0)
                 ELSE readDigits(chars, d, 0)]

\* getCheckIntervalSeconds (lines 31-37).
getCheckIntervalSeconds(raw) ==
  IF raw = UNSET \/ raw.value = <<>> THEN DEFAULT_CHECK_INTERVAL_SECONDS
  ELSE LET n == parseInt(raw.value)
       IN IF ~n.finite \/ n.n < 1 THEN DEFAULT_CHECK_INTERVAL_SECONDS
          ELSE n.n

\* setTimeout(callback, seconds * 1000): the delay in ms after which the
\* timer fires. Node keeps the delay in a signed 32-bit integer: a delay
\* above 2147483647 ms is replaced by 1 ms.
setTimeoutDelay(seconds) ==
  IF seconds > 2147483647 \div 1000 THEN 1 ELSE seconds * 1000

\* The timer that the completion of cycle n arms: the interval read at that
\* moment and the delay of the timer.
Timer(n, seconds) ==
  [timer |-> n, seconds |-> seconds, delay |-> setTimeoutDelay(seconds)]

\* scheduleNext (lines 125-135).
\* The new timer is named after the cycle n whose completion arms it.
\* Faulty variant: no timer is armed.
scheduleNextNever(tid, tms, n) == [timeoutId |-> tid, timers |-> tms]
\* Faulty variant: a timer is armed although one is pending.
scheduleNextUnguarded(tid, tms, n) ==
  LET t == Timer(n, getCheckIntervalSeconds(intervalEnv))
  IN [timeoutId |-> t, timers |-> tms \cup {t}]
scheduleNext(tid, tms, n) ==
  IF tid # NULL
  THEN [timeoutId |-> tid, timers |-> tms]
  ELSE LET t == Timer(n, getCheckIntervalSeconds(intervalEnv))
       IN [timeoutId |-> t, timers |-> tms \cup {t}]

\* The guards on inFlight: start (line 138), the timer callback (line 130)
\* and the poll of stop (line 151).
\* Faulty variants: the timer callback and the poll ignore the flag; the
\* timer callback starts no cycle.
startReturnsEarly(inF) == inF
timerAlways(inF) == TRUE
timerNever(inF) == FALSE
timerStartsCycle(inF) == ~inF
stopResolvesAtOnce(inF) == TRUE
stopCheckResolves(inF) == ~inF

\* runCheck from append to the end of the finally block (lines 77-122).
\* ok: append returned; otherwise it threw and left the file as it was.
\* Faulty variant: the state keeps the lastRun and lastError it had.
CompleteStale(c, ok, tid, tms) ==
  LET caught == catchBlock(AppendError, lastError)
      sn == IF stopping
            THEN [timeoutId |-> tid, timers |-> tms]
            ELSE scheduleNext(tid, tms, c.id)
  IN /\ file' = IF ok THEN append(file, c.entry, now) ELSE file
     /\ lastRun' = lastRun
     /\ lastError' = IF ok THEN lastError ELSE caught.lastError
     /\ unhandled' = (unhandled \/ (~ok /\ caught.propagated))
     /\ inFlight' = FALSE
     /\ cycles' = [k \in (DOMAIN cycles) \ {c.id} |-> cycles[k]]
     /\ timeoutId' = sn.timeoutId
     /\ timers' = sn.timers
     /\ appended' = IF ok THEN appended \cup {c.id} ELSE appended
     /\ failed' = IF ok THEN failed ELSE failed \cup {c.id}
\* Faulty variant: lastRun is set also when the cycle failed.
CompleteStampsFailure(c, ok, tid, tms) ==
  LET caught == catchBlock(AppendError, lastError)
      sn == IF stopping
            THEN [timeoutId |-> tid, timers |-> tms]
            ELSE scheduleNext(tid, tms, c.id)
  IN /\ file' = IF ok THEN append(file, c.entry, now) ELSE file
     /\ lastRun' = c.entry.timestamp
     /\ lastError' = IF ok THEN NULL ELSE caught.lastError
     /\ unhandled' = (unhandled \/ (~ok /\ caught.propagated))
     /\ inFlight' = FALSE
     /\ cycles' = [k \in (DOMAIN cycles) \ {c.id} |-> cycles[k]]
     /\ timeoutId' = sn.timeoutId
     /\ timers' = sn.timers
     /\ appended' = IF ok THEN appended \cup {c.id} ELSE appended
     /\ failed' = IF ok THEN failed ELSE failed \cup {c.id}
Complete(c, ok, tid, tms) ==
  LET caught == catchBlock(AppendError, lastError)
      sn == IF stopping
            THEN [timeoutId |-> tid, timers |-> tms]
            ELSE scheduleNext(tid, tms, c.id)
  IN /\ file' = IF ok THEN append(file, c.entry, now) ELSE file
     /\ lastRun' = IF ok THEN c.entry.timestamp ELSE lastRun
     /\ lastError' = IF ok THEN NULL ELSE caught.lastError
     /\ unhandled' = (unhandled \/ (~ok /\ caught.propagated))
     /\ inFlight' = FALSE
     /\ cycles' = [k \in (DOMAIN cycles) \ {c.id} |-> cycles[k]]
     /\ timeoutId' = sn.timeoutId
     /\ timers' = sn.timers
     /\ appended' = IF ok THEN appended \cup {c.id} ELSE appended
     /\ failed' = IF ok THEN failed ELSE failed \cup {c.id}

\* runCheck runs on from cycle state c until its next await, or to its end.
Resume(c, inF, tid, tms) ==
  IF c.pc = "append"
  THEN \E ok \in BOOLEAN : Complete(c, ok, tid, tms)
  ELSE /\ cycles' = (c.id :> c) @@ cycles
       /\ inFlight' = inF
       /\ timeoutId' = tid
       /\ timers' = tms
       /\ UNCHANGED <<file, lastRun, lastError, unhandled, appended, failed>>

BeginCycle(tid, tms) ==
  /\ cycleSeq < MaxCycles
  /\ cycleSeq' = cycleSeq + 1
  /\ cachedStreamsConfig' = getStreamsConfig(cachedStreamsConfig, streamsJson)
  /\ Resume(runCheckEnter(cycleSeq + 1, now), TRUE, tid, tms)

\* The variables of the scheduler and of the store that a cycle writes.
cycleVars == <<file, lastRun, lastError, timeoutId, inFlight, timers, cycles,
               cycleSeq, unhandled, appended, failed, cachedStreamsConfig>>

\* start() (lines 137-141): what it does to the variables of the scheduler.
startSched ==
  /\ ~exited
  /\ IF startReturnsEarly(inFlight)
     THEN UNCHANGED cycleVars
     ELSE BeginCycle(timeoutId, timers)
  /\ UNCHANGED <<now, token, config, stopping, stops, closing, exited,
                 checks, checkSeq, awaited>>

\* start(), the calls of the cycle to the remote service taken as settled by
\* apiDone and streamDone.
start ==
  /\ startSched
  /\ UNCHANGED aloneVars

\* The callback of the timer armed by scheduleNext (lines 128-134): what it
\* does to the variables of the scheduler.
timerFiresSched(t) ==
  /\ ~exited
  /\ t \in timers
  /\ IF timerStartsCycle(inFlight)
     THEN BeginCycle(NULL, timers \ {t})
     ELSE /\ timeoutId' = NULL
          /\ timers' = timers \ {t}
          /\ UNCHANGED <<file, lastRun, lastError, inFlight, cycles, cycleSeq,
                         unhandled, appended, failed, cachedStreamsConfig>>
  /\ UNCHANGED <<now, token, config, stopping, stops, closing, exited,
                 checks, checkSeq, awaited>>

timerFires(t) ==
  /\ timerFiresSched(t)
  /\ UNCHANGED aloneVars

\* await checkUser(token) settles in cycle id (lines 41-48).
apiDone(id, res) ==
  /\ ~exited
  /\ id \in DOMAIN cycles
  /\ cycles[id].pc = "api"
  /\ LET c == cycles[id]
         e == ("api" :> apiRecord(res)) @@ c.entry
     IN Resume(afterApi([c EXCEPT !.entry = e]), inFlight, timeoutId, timers)
  /\ UNCHANGED <<now, token, config, stopping, cycleSeq, stops, closing,
                 exited, checks, checkSeq, awaited, cachedStreamsConfig>>
  /\ UNCHANGED aloneVars

\* await checkStream(...) settles in cycle id (lines 55-73).
streamDone(id, res) ==
  /\ ~exited
  /\ id \in DOMAIN cycles
  /\ cycles[id].pc = "stream"
  /\ Resume(streamStep(cycles[id], res), inFlight, timeoutId, timers)
  /\ UNCHANGED <<now, token, config, stopping, cycleSeq, stops, closing,
                 exited, checks, checkSeq, awaited, cachedStreamsConfig>>
  /\ UNCHANGED aloneVars

\* The shutdown handler of index.ts (lines 25-31) calls stop() (scheduler.ts
\* lines 143-159). stop() sets stopping, clears the pending timer and polls
\* inFlight; when its promise resolves, the then-callback of the handler
\* calls server.close().
shutdown ==
  /\ ~exited
  /\ stopping' = TRUE
  /\ timers' = timers \ {timeoutId}
  /\ timeoutId' = NULL
  /\ IF stopCheckResolves(inFlight)
     THEN /\ closing' = TRUE
          /\ awaited' = awaited \cup DOMAIN cycles
          /\ UNCHANGED stops
     ELSE /\ stops' = stops \cup {DOMAIN cycles}
          /\ UNCHANGED <<closing, awaited>>
  /\ UNCHANGED <<now, token, config, file, lastRun, lastError, inFlight,
                 cycles, cycleSeq, exited, checks, checkSeq, unhandled,
                 appended, failed, cachedStreamsConfig>>
  /\ UNCHANGED aloneVars

\* The 100 ms poll of stop() (lines 150-156) for the unresolved promise p.
stopPoll(p) ==
  /\ ~exited
  /\ p \in stops
  /\ stopCheckResolves(inFlight)
  /\ stops' = stops \ {p}
  /\ awaited' = awaited \cup p
  /\ closing' = TRUE
  /\ UNCHANGED <<now, token, config, stopping, exited, checks, checkSeq>>
  /\ UNCHANGED cycleVars
  /\ UNCHANGED aloneVars

\* The callback of server.close() (index.ts lines 27-29): no connection is
\* open any more; process.exit(0).
exit ==
  /\ ~exited
  /\ closing
  /\ checks = 0
  /\ exited' = TRUE
  /\ UNCHANGED <<now, token, config, stopping, stops, closing, checks,
                 checkSeq, awaited>>
  /\ UNCHANGED cycleVars
  /\ UNCHANGED aloneVars

----
\* api/routes.ts

\* POST /status/check arrives: handleCheckApi up to await checkUser
\* (lines 43-48); without a token it answers 401 and is done.
checkApiBegin ==
  /\ ~exited
  /\ ~closing
  /\ checkSeq < MaxChecks
  /\ checkSeq' = checkSeq + 1
  /\ checks' = IF token THEN checks + 1 ELSE checks
  /\ UNCHANGED <<now, token, config, stopping, stops, closing, exited,
                 awaited>>
  /\ UNCHANGED cycleVars
  /\ UNCHANGED aloneVars

\* The entry of handleCheckApi (lines 49-59), stamped after the probe.
\* Faulty variant: the entry lacks the outcome of the probe.
checkEntryNoApi(res, t) == [timestamp |-> toISOString(t), streams |-> EmptyMap]
checkEntry(res, t) ==
  [timestamp |-> toISOString(t), api |-> apiRecord(res), streams |-> EmptyMap]

\* checkUser settles: handleCheckApi stamps its entry and appends it
\* (lines 49-60). ok: append returned; otherwise it threw and the server
\* answers 500.
checkApiDone(res, ok) ==
  /\ ~exited
  /\ checks > 0
  /\ checks' = checks - 1
  /\ file' = IF ok THEN append(file, checkEntry(res, now), now) ELSE file
  /\ UNCHANGED <<now, token, config, lastRun, lastError, timeoutId, inFlight,
                 stopping, timers, cycles, cycleSeq, stops, closing, exited,
                 checkSeq, unhandled, appended, failed, awaited,
                 cachedStreamsConfig>>
  /\ UNCHANGED aloneVars

----
\* Time passes.
tick ==
  /\ ~exited
  /\ now < MaxNow
  /\ now' = now + TickMs
  /\ UNCHANGED <<token, config, stopping, stops, closing, exited, checks,
                 checkSeq, awaited>>
  /\ UNCHANGED cycleVars
  /\ UNCHANGED aloneVars

Init ==
  /\ now = InitNow
  /\ token \in BOOLEAN
  /\ streamsJson \in StreamsFiles
  /\ cachedStreamsConfig = NULL
  /\ config = getStreamsConfig(cachedStreamsConfig, streamsJson)
  /\ config \in Configs
  /\ file \in InitFiles
  /\ lastRun = NULL
  /\ lastError = NULL
  /\ timeoutId = NULL
  /\ inFlight = FALSE
  /\ stopping = FALSE
  /\ timers = {}
  /\ cycles = EmptyMap
  /\ cycleSeq = 0
  /\ stops = {}
  /\ closing = FALSE
  /\ exited = FALSE
  /\ checks = 0
  /\ checkSeq = 0
  /\ unhandled = FALSE
  /\ appended = {}
  /\ failed = {}
  /\ awaited = {}
  /\ diskOp = NULL
  /\ probe = NULL
  /\ pending = NULL
  /\ outcome = NULL
  /\ applied = NULL
  /\ intervalEnv = UNSET
  /\ startTime = toISOString(InitNow)
  /\ response = NULL

\* The scheduler and the shutdown handler.
Next ==
  \/ start
  \/ \E t \in timers : timerFires(t)
  \/ \E id \in DOMAIN cycles, res \in ApiResults : apiDone(id, res)
  \/ \E id \in DOMAIN cycles, res \in StreamResults \cup {THROW} :
       streamDone(id, res)
  \/ shutdown
  \/ \E p \in stops : stopPoll(p)
  \/ exit

Spec == Init /\ [][Next]_vars

\* The two writers of the history store, scheduled cycles and on-demand
\* checks, and the clock.
NextStore ==
  \/ cycleSeq < MaxStoreCycles /\ start
  \/ cycleSeq < MaxStoreCycles /\ \E t \in timers : timerFires(t)
  \/ \E id \in DOMAIN cycles, res \in ApiResults : apiDone(id, res)
  \/ \E id \in DOMAIN cycles, res \in StreamResults \cup {THROW} :
       streamDone(id, res)
  \/ checkApiBegin
  \/ \E res \in ApiResults, ok \in BOOLEAN : checkApiDone(res, ok)
  \/ tick

SpecStore == Init /\ [][NextStore]_vars

----
\* Properties of the scheduler (checked under Spec).

\* C1: at most one check cycle is in flight at any time, and the inFlight
\* flag is set while it runs.
C1_SingleFlight ==
  /\ Cardinality(DOMAIN cycles) <= 1
  /\ (DOMAIN cycles # {} => inFlight)

\* A cycle is running while the timer armed by an earlier completion is
\* still pending: start() began the cycle, the timer will fire during it.
C1_Witness == Cardinality(DOMAIN cycles) = 1 /\ timers # {}

\* C2 as stated: when a stop() that found a cycle in flight has resolved,
\* the record of that cycle has been appended to the history store.
C2_ResolvedAfterAppend == awaited \subseteq appended

\* C2 as amended: when a stop() that found a cycle in flight has resolved,
\* that cycle has run to its end: its record has been appended or, when the
\* append raised, the cycle ended in its catch block; the process exits only
\* after a stop() has resolved.
C2_ResolvedAfterCycle ==
  /\ awaited \subseteq (appended \cup failed)
  /\ awaited \cap DOMAIN cycles = {}
  /\ (exited => closing /\ stopping)

\* A stop() found a cycle in flight, waited for it and the process exited.
C2_Witness == awaited # {} /\ exited

\* C3: once stop() has been called, no new cycle starts and no timer is
\* pending.
C3_NoCycleAfterStop ==
  [][/\ (stopping => cycleSeq' = cycleSeq)
     /\ (stopping' => timers' = {} /\ timeoutId' = NULL)]_vars

\* C4: start() with no cycle in flight begins a cycle in the same step, and
\* every cycle completion before stop(), successful or failed, leaves a timer
\* armed for the next cycle.
C4_Reschedules ==
  [][/\ (start /\ ~inFlight => cycleSeq' = cycleSeq + 1)
     /\ ((appended' # appended \/ failed' # failed) /\ ~stopping
           => timeoutId' # NULL /\ timeoutId' \in timers')]_vars

\* The completion of a failed cycle has armed the pending timer.
C4_Witness == timeoutId # NULL /\ timeoutId.timer \in failed

\* C5: a cycle whose append raises ends in the catch block: the error is
\* recorded as lastError, nothing propagates out of runCheck, and the
\* in-flight flag is cleared.
C5_CycleErrorCaught ==
  [][failed' # failed
       => /\ lastError' = [text |-> "EACCES"]
          /\ ~unhandled'
          /\ ~inFlight'
          /\ (failed' \ failed) \cap DOMAIN cycles' = {}]_vars

\* A cycle has failed at its append and the scheduler is idle again.
C5_Witness == failed # {} /\ lastError = [text |-> "EACCES"] /\ ~inFlight

\* C6: when the check of a target rejects, the record gets
\* {success: false, errorType: "unknown"} for that target and the cycle goes
\* on: to the next configured target or, after the last one, to the append.
UnknownRecord == [success |-> FALSE, errorType |-> "unknown"]
C6_TargetIsolation ==
  [][\A id \in DOMAIN cycles :
       streamDone(id, THROW) =>
         LET c == cycles[id]
             sid == config.streams[c.i]
         IN IF id \in DOMAIN cycles'
            THEN /\ cycles'[id].pc = "stream"
                 /\ cycles'[id].i = c.i + 1
                 /\ cycles'[id].entry.streams[sid] = UnknownRecord
                 /\ \A o \in DOMAIN c.entry.streams :
                      cycles'[id].entry.streams[o] = c.entry.streams[o]
            ELSE /\ c.i = Len(config.streams)
                 /\ (id \in appended' =>
                       LET es == loadEntries(file')
                       IN /\ es # <<>>
                          /\ DOMAIN es[Len(es)].streams
                               = {config.streams[k] :
                                    k \in 1..Len(config.streams)}
                          /\ es[Len(es)].streams[sid] = UnknownRecord)]_vars

\* The store holds a record of a cycle in which the check of target "a"
\* rejected and the later target "b" was still checked and recorded.
C6_Witness ==
  \E k \in 1..Len(loadEntries(file)) :
    LET e == loadEntries(file)[k]
    IN /\ "streams" \in DOMAIN e
       /\ DOMAIN e.streams = {"a", "b"}
       /\ e.streams["a"] = UnknownRecord
       /\ e.streams["b"].success

----
\* Properties of the history store (checked under SpecStore).

Age(e, t) == t - getTime(e.timestamp)
IsCheckEntry(e) == "streams" \in DOMAIN e /\ DOMAIN e.streams = {}
IsCycleEntry(e) == ~IsCheckEntry(e)
Young(e, t) == getTime(e.timestamp) # NaN /\ Age(e, t) < MAX_AGE_MS

\* C7: right after an append, every line of the store is a record whose age
\* is at most the retention window.
C7_Retention ==
  [][file' # file =>
       \A k \in 1..Len(file'.lines) :
         /\ parses(file'.lines[k])
         /\ getTime(parse(file'.lines[k]).timestamp) # NaN
         /\ Age(parse(file'.lines[k]), now') <= MAX_AGE_MS]_vars

\* An append has dropped the record that was as old as the window and has
\* kept the younger one in front of the new record.
C7_Witness ==
  /\ file.exists
  /\ Len(file.lines) >= 2
  /\ file.lines[1] = MidLine
  /\ \A k \in 1..Len(file.lines) : parses(file.lines[k])

\* C8: an append keeps every stored record whose age is at most the
\* retention window, unchanged and in order, followed by the new record.
C8_KeepsWindow ==
  [][file' # file =>
       LET before == loadEntries(file)
           after == loadEntries(file')
           kept == SelectSeq(before,
                             LAMBDA e : Age(e, now) <= MAX_AGE_MS)
       IN /\ Len(after) = Len(kept) + 1
          /\ SubSeq(after, 1, Len(kept)) = kept]_vars

\* C9: an append by one writer loses no record of the other writer: after
\* an on-demand check has appended, every cycle record younger than the
\* window is still stored, in order, and the check's record is the last; after
\* a cycle has appended, the same holds of the on-demand records.
C9_NoLostUpdate ==
  [][file' # file =>
       LET before == SelectSeq(loadEntries(file), LAMBDA e : Young(e, now))
           after == loadEntries(file')
       IN /\ (checks' < checks =>
                /\ SelectSeq(after, IsCycleEntry)
                     = SelectSeq(before, IsCycleEntry)
                /\ after # <<>>
                /\ IsCheckEntry(after[Len(after)]))
          /\ (appended' # appended =>
                SelectSeq(after, IsCheckEntry)
                  = SelectSeq(before, IsCheckEntry))]_vars

\* The store holds the record of an on-demand check followed by the record
\* of a cycle with an earlier stamp: the check appended while the cycle was
\* in flight, and the cycle appended after it.
C9_Witness ==
  \E k \in 1..(Len(loadEntries(file)) - 1) :
    LET a == loadEntries(file)[k]
        b == loadEntries(file)[k + 1]
    IN /\ IsCheckEntry(a)
       /\ IsCycleEntry(b)
       /\ getTime(b.timestamp) < getTime(a.timestamp)

\* C10: the timestamps of the stored records are non-decreasing in append
\* order.
C10_Monotonic ==
  \A j, k \in 1..Len(loadEntries(file)) :
    j < k => getTime(loadEntries(file)[j].timestamp)
               <= getTime(loadEntries(file)[k].timestamp)

----
\* storage.ts taken alone: the calls of append and readAll on a backing file
\* that may hold anything, in a process that may stop at any point.

MaxLines == 3

\* The variables of the scheduler, which the store calls leave alone.
schedVars == <<token, config, lastRun, lastError, timeoutId, inFlight,
               stopping, timers, cycles, cycleSeq, stops, closing, exited,
               checks, checkSeq, unhandled, appended, failed, awaited,
               cachedStreamsConfig>>

\* JSON.parse("null") is null: a line that is valid JSON and no record.
JsonNull == [jsonnull |-> TRUE]
NullLine == stringify(JsonNull)
NowLine == stringify([timestamp |-> toISOString(InitNow)])

\* The backing file when the process starts: as InitFiles, or a history
\* with an expired and a new record, or a history with a null line.
DiskFiles ==
  InitFiles \cup
    { [exists |-> TRUE, lines |-> <<OldLine, NowLine>>],
      [exists |-> TRUE, lines |-> <<MidLine, NullLine>>] }

\* The records handed to append at time t: a record is stamped when its
\* cycle begins (scheduler.ts line 36) and appended when the cycle ends.
DiskEntries(t) ==
  { [timestamp |-> toISOString(t - d)] : d \in {0, TickMs, MAX_AGE_MS} }

\* prune (line 58) reads e.timestamp of every entry outside any try block:
\* a TypeError when the entry is null.
pruneRaises(entries) == \E k \in 1..Len(entries) : entries[k] = JsonNull
appendRaises(f, entry) == pruneRaises(Append(loadEntries(f), entry))
readAllRaises(f) == pruneRaises(loadEntries(f))

\* writeFileSync (line 71) truncates the file and then writes the content:
\* a process that stops in between leaves the first k lines, and the next
\* line cut short when torn.
writeFileSyncStopped(lines, k, torn) ==
  [exists |-> TRUE,
   lines |-> SubSeq(lines, 1, k) \o (IF torn THEN <<Garbage>> ELSE <<>>)]

storeCall(op, entry, before, after, raised, result, t) ==
  [op |-> op, entry |-> entry, before |-> before, after |-> after,
   raised |-> raised, result |-> result, at |-> t]

\* append(entry) is called and runs to its end (lines 64-72).
appendCall(entry) ==
  /\ Len(file.lines) < MaxLines
  /\ IF appendRaises(file, entry)
     THEN /\ file' = file
          /\ diskOp' = storeCall("append", entry, file, file, TRUE, <<>>, now)
     ELSE /\ file' = append(file, entry, now)
          /\ diskOp' = storeCall("append", entry, file,
                                 append(file, entry, now), FALSE, <<>>, now)
  /\ UNCHANGED <<now, probe, pending, outcome>>
  /\ UNCHANGED restVars
  /\ UNCHANGED schedVars

\* append(entry) is called and the process stops inside writeFileSync
\* (line 71); the process is started again afterwards.
appendStops(entry, k, torn) ==
  /\ Len(file.lines) < MaxLines
  /\ ~appendRaises(file, entry)
  /\ k \in 0..(Len(append(file, entry, now).lines) - 1)
  /\ file' = writeFileSyncStopped(append(file, entry, now).lines, k, torn)
  /\ diskOp' = storeCall("stopped", entry, file, append(file, entry, now),
                         FALSE, <<>>, now)
  /\ UNCHANGED <<now, probe, pending, outcome>>
  /\ UNCHANGED restVars
  /\ UNCHANGED schedVars

\* readAll() is called (lines 77-80).
readAllCall ==
  /\ file' = file
  /\ diskOp' = IF readAllRaises(file)
               THEN storeCall("readAll", NULL, file, file, TRUE, <<>>, now)
               ELSE storeCall("readAll", NULL, file, file, FALSE,
                              readAll(file, now), now)
  /\ UNCHANGED <<now, probe, pending, outcome>>
  /\ UNCHANGED restVars
  /\ UNCHANGED schedVars

InitDisk ==
  /\ now = InitNow
  /\ token = TRUE
  /\ config = [apiCheck |-> FALSE, streams |-> <<>>]
  /\ streamsJson = StreamsJson([apiCheck |-> FALSE])
  /\ cachedStreamsConfig = NULL
  /\ file \in DiskFiles
  /\ lastRun = NULL
  /\ lastError = NULL
  /\ timeoutId = NULL
  /\ inFlight = FALSE
  /\ stopping = FALSE
  /\ timers = {}
  /\ cycles = EmptyMap
  /\ cycleSeq = 0
  /\ stops = {}
  /\ closing = FALSE
  /\ exited = FALSE
  /\ checks = 0
  /\ checkSeq = 0
  /\ unhandled = FALSE
  /\ appended = {}
  /\ failed = {}
  /\ awaited = {}
  /\ diskOp = NULL
  /\ probe = NULL
  /\ pending = NULL
  /\ outcome = NULL
  /\ applied = NULL
  /\ intervalEnv = UNSET
  /\ startTime = toISOString(InitNow)
  /\ response = NULL

NextDisk ==
  \/ \E entry \in DiskEntries(now) : appendCall(entry)
  \/ \E entry \in DiskEntries(now), k \in 0..MaxLines, torn \in BOOLEAN :
       appendStops(entry, k, torn)
  \/ readAllCall
  \/ tick

SpecDisk == InitDisk /\ [][NextDisk]_vars

----
\* Properties of the store calls (checked under SpecDisk).

\* C11: when the process stops inside append, the backing file holds
\* either all the lines it held before the call or all the lines of the
\* completed rewrite, never a part of them.
C11_AtomicRewrite ==
  (diskOp # NULL /\ diskOp.op = "stopped")
    => file.lines \in {diskOp.before.lines, diskOp.after.lines}

\* C12: no call of append or readAll raises, whatever the backing file
\* holds.
C12_NeverRaises == diskOp # NULL => ~diskOp.raised

\* C13: after append(r) with r no older than the retention window, a
\* readAll() at once returns a sequence whose last element is r.
C13_ReadBack ==
  (/\ diskOp # NULL
   /\ diskOp.op = "append"
   /\ Age(diskOp.entry, diskOp.at) <= MAX_AGE_MS)
    => /\ ~diskOp.raised
       /\ readAll(file, diskOp.at) # <<>>
       /\ readAll(file, diskOp.at)[Len(readAll(file, diskOp.at))]
            = diskOp.entry

----
\* streamChecker.ts and rdClient.ts: one checkStream() invocation, from the
\* call by the scheduler to the record the scheduler stores. The remote end
\* is the environment: it answers a request with a status, fails it at the
\* network level, or does not answer.

NetworkError == [rejects |-> TRUE]
Statuses == {200, 403, 404, 405, 429, 500}
Bodies == {"found", "absent", "malformed", "invalid"}
NoMessage == {}

\* The host of the location the probe ends at, hostFromUrl(res.url) (lines
\* 59-65): "" when the URL does not parse; the host of the direct link; the
\* host named by the resolution (download.host, unrestrict.host).
CdnHosts == {"cdn", ""}
LinkHost == "link"
ResolvedHost == "rd"
ProbeResponses == [status : Statuses, host : CdnHosts]
FetchResponses == [status : Statuses]

\* A string is given by its words, each [word, upper]: written in lower
\* case, or with upper-case letters. String.prototype.toLowerCase turns every
\* word to lower case; includes(w) looks for the lower-case word w as it is.
toLowerCase(message) == {[word |-> w.word, upper |-> FALSE] : w \in message}
includes(message, word) == [word |-> word, upper |-> FALSE] \in message

\* A URL: whether new URL(url) accepts it, and the segments of its path.
Url(valid, path) == [valid |-> valid, path |-> path]

\* The targets of streams.json that getStreamsConfig lets through: a hash
\* (written in upper case), a download URL of the form /d/ID, a URL with
\* another path, the URL /d, a string that is no URL.
TargetHash == {[word |-> "abc", upper |-> TRUE]}
Targets ==
  { [type |-> "hash", hash |-> TargetHash],
    [type |-> "download", url |-> Url(TRUE, <<"d", "ID1">>)],
    [type |-> "download", url |-> Url(TRUE, <<"x", "ID1">>)],
    [type |-> "download", url |-> Url(TRUE, <<"d">>)],
    [type |-> "download", url |-> Url(FALSE, <<>>)] }

\* parseDownloadId (lines 125-133): the segment after /d/, or null.
parseDownloadId(url) ==
  IF url.valid /\ Len(url.path) >= 2 /\ url.path[1] = "d"
  THEN [id |-> url.path[2]]
  ELSE NULL

\* The lists a body holds. Cache list: the target's hash in lower case
\* after another item; another item only; an item without a hash.
\* Downloads list: the target's id after another item; another item only.
cacheItems(body) ==
  IF body = "found"
  THEN << [id |-> "1", hash |-> {[word |-> "xyz", upper |-> FALSE]}],
          [id |-> "2", hash |-> {[word |-> "abc", upper |-> FALSE]}] >>
  ELSE IF body = "absent"
  THEN << [id |-> "1", hash |-> {[word |-> "xyz", upper |-> FALSE]}] >>
  ELSE << [id |-> "1"] >>
downloadItems(body) ==
  IF body = "found"
  THEN << [id |-> "ID2", download |-> LinkHost, host |-> ResolvedHost],
          [id |-> "ID1", download |-> LinkHost, host |-> ResolvedHost] >>
  ELSE << [id |-> "ID2", download |-> LinkHost, host |-> ResolvedHost] >>

\* list.items.find((t) => t.hash.toLowerCase() === hashLower) (line 210):
\* the items are tested in order up to the first match; an item without a
\* hash that is reached throws a TypeError.
firstMatch(items, hashLower) ==
  LET hits == {k \in 1..Len(items) :
                 "hash" \in DOMAIN items[k]
                   /\ toLowerCase(items[k].hash) = hashLower}
  IN IF hits = {} THEN Len(items) + 1
     ELSE CHOOSE k \in hits : \A j \in hits : k <= j
firstThrow(items) ==
  LET bad == {k \in 1..Len(items) : "hash" \notin DOMAIN items[k]}
  IN IF bad = {} THEN Len(items) + 1
     ELSE CHOOSE k \in bad : \A j \in bad : k <= j
findThrows(items, hashLower) == firstThrow(items) < firstMatch(items, hashLower)
findsCache(items, hashLower) == firstMatch(items, hashLower) <= Len(items)

\* list.downloads.find((d) => d.id === id) and download?.download (lines
\* 164-165).
findsDownload(items, id) ==
  \E k \in 1..Len(items) : items[k].id = id /\ "download" \in DOMAIN items[k]

ok(status) == status >= 200 /\ status <= 299

\* classifyError (lines 44-56). A call without a message has message
\* undefined, for which every includes test is false: NoMessage.
\* Faulty variant: the message is looked at before the status >= 500.
classifyErrorMessageFirst(status, message) ==
  IF status = 429 THEN "rate_limit"
  ELSE IF status = 403 THEN "forbidden"
  ELSE IF status = 0 \/ includes(toLowerCase(message), "timeout")
       THEN "timeout"
  ELSE IF status >= 500 THEN "server_error"
  ELSE IF \/ includes(toLowerCase(message), "fetch")
          \/ includes(toLowerCase(message), "network")
          \/ includes(toLowerCase(message), "econnrefused")
       THEN "network"
  ELSE "unknown"
classifyError(status, message) ==
  IF status = 429 THEN "rate_limit"
  ELSE IF status = 403 THEN "forbidden"
  ELSE IF status >= 500 THEN "server_error"
  ELSE IF status = 0 \/ includes(toLowerCase(message), "timeout")
       THEN "timeout"
  ELSE IF \/ includes(toLowerCase(message), "fetch")
          \/ includes(toLowerCase(message), "network")
          \/ includes(toLowerCase(message), "econnrefused")
       THEN "network"
  ELSE "unknown"

\* rdClient.ts: the calls that read the body of an answer that is not ok
\* (getDownloadsList lines 118-127, getCacheList lines 185-194).
ListCalls == {"getCacheList", "getDownloadsList"}
ClientCalls == ListCalls \cup {"getCacheInfo", "unrestrictLink"}
readsBody(call, status) == ok(status) \/ call \in ListCalls

\* rdClient.ts: the result object of a call whose fetch was answered with
\* status and whose body read has settled with body. A body that is no JSON,
\* or that the mapping of the call throws on, ends in the catch block.
clientResult(call, status, body) ==
  IF ~ok(status) THEN [success |-> FALSE, httpStatus |-> status]
  ELSE IF body = "invalid" THEN [success |-> FALSE]
  ELSE IF call = "getCacheList"
       THEN [success |-> TRUE, items |-> cacheItems(body)]
  ELSE IF call = "getDownloadsList"
       THEN IF body = "malformed" THEN [success |-> FALSE]
            ELSE [success |-> TRUE, downloads |-> downloadItems(body)]
  ELSE IF call = "getCacheInfo"
       THEN [success |-> TRUE, httpStatus |-> status,
             links |-> IF body = "found" THEN 1 ELSE 0]
  ELSE IF body = "malformed" THEN [success |-> FALSE]
  ELSE IF body = "found"
       THEN [success |-> TRUE, httpStatus |-> status, download |-> LinkHost,
             host |-> ResolvedHost]
  ELSE [success |-> TRUE, httpStatus |-> status]

\* rdClient.ts: the result of a call whose fetch rejected or timed out.
clientFailed == [success |-> FALSE]

\* r.httpStatus ?? 0
statusOrZero(r) == IF "httpStatus" \in DOMAIN r THEN r.httpStatus ELSE 0

\* The failure result of a list or unrestrict call (lines 156-162, 201-207,
\* 230-238).
callFailure(r, apiMs, step) ==
  [success |-> FALSE,
   apiResponseTimeMs |-> apiMs,
   httpStatus |-> statusOrZero(r),
   errorType |-> IF statusOrZero(r) # 0
                 THEN classifyError(r.httpStatus, NoMessage)
                 ELSE "unknown",
   failureStep |-> step]

\* The failure result of a resolution step that found nothing (lines
\* 147-152, 166-171, 212-217, 221-226).
notFound(apiMs, step) ==
  [success |-> FALSE, apiResponseTimeMs |-> apiMs, errorType |-> "unknown",
   failureStep |-> step]

\* The result after the probe (lines 173-186, 240-253).
\* Faulty variant: every status below 400 counts as a success.
probeResultLax(apiMs, h, resHost) ==
  LET base == [success |-> h.httpStatus < 400,
               apiResponseTimeMs |-> apiMs,
               ttfbMs |-> h.ttfbMs,
               httpStatus |-> h.httpStatus,
               cdnHost |-> IF h.host # "" THEN h.host ELSE resHost]
  IN IF h.httpStatus >= 400
     THEN [errorType |-> classifyError(h.httpStatus, NoMessage),
           failureStep |-> "cdn_head_failed"] @@ base
     ELSE base
probeResult(apiMs, h, resHost) ==
  LET base == [success |-> h.httpStatus >= 200 /\ h.httpStatus < 400,
               apiResponseTimeMs |-> apiMs,
               ttfbMs |-> h.ttfbMs,
               httpStatus |-> h.httpStatus,
               cdnHost |-> IF h.host # "" THEN h.host ELSE resHost]
  IN IF h.httpStatus >= 400
     THEN [errorType |-> classifyError(h.httpStatus, NoMessage),
           failureStep |-> "cdn_head_failed"] @@ base
     ELSE base

\* A request in flight. bounded: a timer of REQUEST_TIMEOUT_MS that fails
\* the request is armed (withTimeout, rdClient.ts lines 45-52; the abort
\* timer of headWithTtfb, line 73).
request(call, phase, bounded, status) ==
  [call |-> call, phase |-> phase, bounded |-> bounded, status |-> status]

\* What an invocation does when it runs on: it returns a result, it throws,
\* or it issues the next request.
Return(res, h, p) ==
  [kind |-> "return", result |-> res, head |-> h, probe |-> p]
Reject(p) == [kind |-> "reject", result |-> THROW, head |-> NULL, probe |-> p]
Await(p, req) == [kind |-> "await", probe |-> p, pending |-> req]

\* headWithTtfb is entered (lines 71-79): the HEAD request, under the abort
\* timer.
headWithTtfbEnter(p, resHost, t) ==
  Await([p EXCEPT !.pc = "head", !.apiMs = t - p.apiStart, !.start = t,
                  !.resHost = resHost, !.probed = TRUE],
        request("HEAD", "fetch", TRUE, 0))

\* checkStreamByUrl / checkStreamByHash after the list call (lines 155-173,
\* 200-219).
\* Faulty variant: the direct link is probed without looking for the id.
afterListNoFind(p0, list, t) ==
  LET p == [p0 EXCEPT !.list = list]
  IN IF p.target.type = "download"
     THEN IF ~list.success \/ "downloads" \notin DOMAIN list
          THEN Return(callFailure(list, t - p.apiStart, "download_not_found"),
                      NULL, p)
          ELSE headWithTtfbEnter(p, ResolvedHost, t)
     ELSE IF ~list.success \/ "items" \notin DOMAIN list
          THEN Return(callFailure(list, t - p.apiStart,
                                  "cache_not_in_account"), NULL, p)
          ELSE IF findThrows(list.items, toLowerCase(p.target.hash))
          THEN Reject(p)
          ELSE IF ~findsCache(list.items, toLowerCase(p.target.hash))
          THEN Return(notFound(t - p.apiStart, "cache_not_in_account"),
                      NULL, p)
          ELSE Await([p EXCEPT !.pc = "info"],
                     request("getCacheInfo", "fetch", TRUE, 0))
afterList(p0, list, t) ==
  LET p == [p0 EXCEPT !.list = list]
  IN IF p.target.type = "download"
     THEN IF ~list.success \/ "downloads" \notin DOMAIN list
          THEN Return(callFailure(list, t - p.apiStart, "download_not_found"),
                      NULL, p)
          ELSE IF ~findsDownload(list.downloads,
                                 parseDownloadId(p.target.url).id)
          THEN Return(notFound(t - p.apiStart, "download_not_found"), NULL, p)
          ELSE headWithTtfbEnter(p, ResolvedHost, t)
     ELSE IF ~list.success \/ "items" \notin DOMAIN list
          THEN Return(callFailure(list, t - p.apiStart,
                                  "cache_not_in_account"), NULL, p)
          ELSE IF findThrows(list.items, toLowerCase(p.target.hash))
          THEN Reject(p)
          ELSE IF ~findsCache(list.items, toLowerCase(p.target.hash))
          THEN Return(notFound(t - p.apiStart, "cache_not_in_account"),
                      NULL, p)
          ELSE Await([p EXCEPT !.pc = "info"],
                     request("getCacheInfo", "fetch", TRUE, 0))

\* checkStreamByHash after getCacheInfo (lines 220-228).
\* Faulty variant: an item without links is added again as a magnet.
afterInfoAddsMagnet(p, info, t) ==
  IF ~info.success \/ info.links = 0
  THEN Await([p EXCEPT !.pc = "add"], request("addMagnet", "fetch", TRUE, 0))
  ELSE Await([p EXCEPT !.pc = "unrestrict"],
             request("unrestrictLink", "fetch", TRUE, 0))
afterInfo(p, info, t) ==
  IF ~info.success \/ info.links = 0
  THEN Return(notFound(t - p.apiStart, "no_links"), NULL, p)
  ELSE Await([p EXCEPT !.pc = "unrestrict"],
             request("unrestrictLink", "fetch", TRUE, 0))

\* checkStreamByHash after unrestrictLink (lines 229-241).
afterUnrestrict(p, unrestrict, t) ==
  IF ~unrestrict.success \/ "download" \notin DOMAIN unrestrict
  THEN Return(callFailure(unrestrict, t - p.apiStart, "unrestrict_failed"),
              NULL, p)
  ELSE headWithTtfbEnter(p, unrestrict.host, t)

afterCall(p, r, t) ==
  IF p.pc = "list" THEN afterList(p, r, t)
  ELSE IF p.pc = "info" THEN afterInfo(p, r, t)
  ELSE afterUnrestrict(p, r, t)

\* headWithTtfb returns h: the caller builds its result (lines 174-186,
\* 241-253).
afterHead(p, h) == Return(probeResult(p.apiMs, h, p.resHost), h, p)

\* headWithTtfb, the catch block (lines 100-108): the GET without a timer.
headCatch(p, t) ==
  Await([p EXCEPT !.pc = "getCatch", !.ttfbCatch = t - p.start],
        request("GET", "fetch", FALSE, 0))

\* The invocation has run on to d. When it issued a request, the request is
\* added to the calls made so far. When it returned or threw, the promise of
\* checkStream settles (line 267 and 270 return the inner promise, so a
\* rejection is not caught at line 278) and the scheduler stores the record
\* (scheduler.ts lines 55-73).
settle(d) ==
  IF d.kind = "await"
  THEN /\ probe' = [d.probe EXCEPT !.calls = Append(@, d.pending.call)]
       /\ pending' = d.pending
       /\ outcome' = outcome
  ELSE /\ probe' = NULL
       /\ pending' = NULL
       /\ outcome' = [record |-> streamRecord(d.result),
                      rejected |-> d.result = THROW,
                      head |-> d.head,
                      target |-> d.probe.target,
                      list |-> d.probe.list,
                      probed |-> d.probe.probed,
                      calls |-> d.probe.calls]

probeFrame ==
  /\ UNCHANGED <<now, file, diskOp>>
  /\ UNCHANGED restVars
  /\ UNCHANGED schedVars

\* The scheduler calls checkStream (scheduler.ts line 55); it runs to its
\* first await (lines 144-154, 198-199).
checkStreamEnter(target) ==
  LET p == [target |-> target, pc |-> "list", apiStart |-> now,
            apiMs |-> 0, start |-> 0, ttfbCatch |-> 0, resHost |-> "",
            list |-> NULL, probed |-> FALSE, calls |-> <<>>]
  IN IF target.type = "download" /\ parseDownloadId(target.url) = NULL
     THEN settle(Return(notFound(0, "download_not_found"), NULL, p))
     ELSE LET call == IF target.type = "hash" THEN "getCacheList"
                      ELSE "getDownloadsList"
          IN /\ probe' = [p EXCEPT !.calls = <<call>>]
             /\ pending' = request(call, "fetch", TRUE, 0)
             /\ outcome' = NULL

checkStreamCall(target) ==
  /\ probe = NULL
  /\ checkStreamEnter(target)
  /\ probeFrame

\* The fetch of an rdClient call settles: with a status, or rejected.
fetchSettles(r) ==
  /\ pending # NULL
  /\ pending.call \in ClientCalls
  /\ pending.phase = "fetch"
  /\ IF r = NetworkError
     THEN settle(afterCall(probe, clientFailed, now))
     ELSE IF readsBody(pending.call, r.status)
     THEN /\ pending' = request(pending.call, "body", FALSE, r.status)
          /\ UNCHANGED <<probe, outcome>>
     ELSE settle(afterCall(probe,
                           clientResult(pending.call, r.status, "absent"),
                           now))
  /\ probeFrame

\* res.json() of an rdClient call settles.
bodySettles(body) ==
  /\ pending # NULL
  /\ pending.phase = "body"
  /\ settle(afterCall(probe,
                      clientResult(pending.call, pending.status, body), now))
  /\ probeFrame

\* The timer of a bounded request fires first: withTimeout rejects and the
\* call returns its failure; the HEAD of the probe is aborted and
\* headWithTtfb goes to its catch block.
timeoutFires ==
  /\ pending # NULL
  /\ pending.bounded
  /\ IF pending.call = "HEAD"
     THEN settle(headCatch(probe, now))
     ELSE settle(afterCall(probe, clientFailed, now))
  /\ probeFrame

\* The HEAD of the probe settles (lines 75-99).
headSettles(r) ==
  /\ pending # NULL
  /\ pending.call = "HEAD"
  /\ IF r = NetworkError THEN settle(headCatch(probe, now))
     ELSE IF ok(r.status) \/ r.status \notin {405, 501}
     THEN settle(afterHead(probe, [ttfbMs |-> now - probe.start,
                                   httpStatus |-> r.status,
                                   host |-> r.host]))
     ELSE settle(Await([probe EXCEPT !.pc = "get"],
                       request("GET", "fetch", FALSE, 0)))
  /\ probeFrame

\* The GET that follows a HEAD answered 405 or 501 settles (lines 86-97); a
\* rejection is caught at line 100.
getSettles(r) ==
  /\ pending # NULL
  /\ pending.call = "GET"
  /\ probe.pc = "get"
  /\ IF r = NetworkError THEN settle(headCatch(probe, now))
     ELSE settle(afterHead(probe, [ttfbMs |-> now - probe.start,
                                   httpStatus |-> r.status,
                                   host |-> r.host]))
  /\ probeFrame

\* The GET of the catch block settles (lines 103-120).
getCatchSettles(r) ==
  /\ pending # NULL
  /\ pending.call = "GET"
  /\ probe.pc = "getCatch"
  /\ IF r = NetworkError
     THEN settle(afterHead(probe, [ttfbMs |-> probe.ttfbCatch,
                                   httpStatus |-> 0,
                                   host |-> LinkHost]))
     ELSE settle(afterHead(probe, [ttfbMs |-> now - probe.start,
                                   httpStatus |-> r.status,
                                   host |-> r.host]))
  /\ probeFrame

InitProbe ==
  /\ now = InitNow
  /\ token = TRUE
  /\ config = [apiCheck |-> FALSE, streams |-> <<"a">>]
  /\ streamsJson = StreamsJson([apiCheck |-> FALSE, streams |-> <<ItemA>>])
  /\ cachedStreamsConfig = NULL
  /\ file = MISSING
  /\ lastRun = NULL
  /\ lastError = NULL
  /\ timeoutId = NULL
  /\ inFlight = FALSE
  /\ stopping = FALSE
  /\ timers = {}
  /\ cycles = EmptyMap
  /\ cycleSeq = 0
  /\ stops = {}
  /\ closing = FALSE
  /\ exited = FALSE
  /\ checks = 0
  /\ checkSeq = 0
  /\ unhandled = FALSE
  /\ appended = {}
  /\ failed = {}
  /\ awaited = {}
  /\ diskOp = NULL
  /\ probe = NULL
  /\ pending = NULL
  /\ outcome = NULL
  /\ applied = NULL
  /\ intervalEnv = UNSET
  /\ startTime = toISOString(InitNow)
  /\ response = NULL

NextProbe ==
  \/ \E target \in Targets : checkStreamCall(target)
  \/ \E r \in FetchResponses \cup {NetworkError} : fetchSettles(r)
  \/ \E body \in Bodies : bodySettles(body)
  \/ timeoutFires
  \/ \E r \in ProbeResponses \cup {NetworkError} : headSettles(r)
  \/ \E r \in ProbeResponses \cup {NetworkError} : getSettles(r)
  \/ \E r \in ProbeResponses \cup {NetworkError} : getCatchSettles(r)
  \/ tick

SpecProbe == InitProbe /\ [][NextProbe]_vars

----
\* Properties of the stream checker (checked under SpecProbe).

\* C15: every request in flight during a check, a remote call or a probe
\* request or its fallback, has the timer of the fixed timeout armed that
\* fails it when the remote end does not answer.
C15_Bounded == pending # NULL => pending.bounded

\* C16: the promise of checkStream never rejects: the scheduler always
\* gets a result.
C16_NeverRejects == outcome # NULL => ~outcome.rejected

\* C17: every record of a failed check carries both an errorType and a
\* failureStep.
C17_FailureFields ==
  (outcome # NULL /\ ~outcome.record.success)
    => {"errorType", "failureStep"} \subseteq DOMAIN outcome.record

\* C18: no record carries a failure field (errorType or failureStep)
\* together with both timing fields (apiResponseTimeMs and ttfbMs).
C18_FieldSetsDisjoint ==
  outcome # NULL
    => ~(/\ {"errorType", "failureStep"} \cap DOMAIN outcome.record # {}
         /\ {"apiResponseTimeMs", "ttfbMs"} \subseteq DOMAIN outcome.record)

\* The error kind that the classification rule gives for a status without
\* a message.
KindOfStatus(status) ==
  CASE status = 429 -> "rate_limit"
    [] status = 403 -> "forbidden"
    [] status >= 500 -> "server_error"
    [] status = 0 -> "timeout"
    [] OTHER -> "unknown"

\* C19: a record has success = true exactly when the resolution succeeded
\* and the final status of the probe is in [200, 400); a probe status of
\* 400 or more gives success = false, failureStep cdn_head_failed, the host
\* the probe ended at (the host named by the resolution when the probe
\* gives none) and the errorType classified from that status.
C19_SuccessRule ==
  outcome # NULL
    => LET r == outcome.record
           h == outcome.head
       IN /\ r.success
               <=> (h # NULL /\ h.httpStatus >= 200 /\ h.httpStatus < 400)
          /\ (h # NULL /\ h.httpStatus >= 400
                => /\ ~r.success
                   /\ r.httpStatus = h.httpStatus
                   /\ r.failureStep = "cdn_head_failed"
                   /\ r.cdnHost = (IF h.host # "" THEN h.host
                                   ELSE ResolvedHost)
                   /\ r.errorType = KindOfStatus(h.httpStatus))

\* The probe of a resolved target was answered 429 by the fallback GET of
\* the catch block, at a location whose host does not parse: the record is
\* a rate_limit failure at cdn_head_failed with the host of the resolution.
C19_Witness ==
  /\ outcome # NULL
  /\ outcome.head # NULL
  /\ outcome.head.httpStatus = 429
  /\ outcome.head.host = ""
  /\ outcome.record.cdnHost = ResolvedHost
  /\ outcome.record.errorType = "rate_limit"

\* C20: every record that carries an httpStatus and an errorType has the
\* errorType that the classification rule gives for that status, whichever
\* call produced the status.
C20_UniformClassification ==
  (outcome # NULL /\ {"httpStatus", "errorType"} \subseteq DOMAIN outcome.record)
    => outcome.record.errorType = KindOfStatus(outcome.record.httpStatus)

----
\* The pure functions taken alone: each action is one call, with arguments
\* drawn from a bounded set.

MaxWords == 2

\* The statuses and the messages classifyError is called with.
ClassifyStatuses == {0, 200, 403, 404, 429, 499, 500, 503}
MessageWords ==
  [word : {"timeout", "fetch", "network", "econnrefused", "aborted"},
   upper : BOOLEAN]
Messages == {m \in SUBSET MessageWords : Cardinality(m) <= MaxWords}

pureFrame ==
  /\ UNCHANGED <<now, file, diskOp, probe, pending, outcome, intervalEnv,
                 startTime, response, streamsJson>>
  /\ UNCHANGED schedVars

classifyCall(status, message) ==
  /\ applied' = [fn |-> "classifyError", status |-> status,
                 message |-> message,
                 result |-> classifyError(status, message)]
  /\ pureFrame

InitPure ==
  /\ now = InitNow
  /\ token = TRUE
  /\ config = [apiCheck |-> FALSE, streams |-> <<>>]
  /\ streamsJson = StreamsJson([apiCheck |-> FALSE])
  /\ cachedStreamsConfig = NULL
  /\ file = MISSING
  /\ lastRun = NULL
  /\ lastError = NULL
  /\ timeoutId = NULL
  /\ inFlight = FALSE
  /\ stopping = FALSE
  /\ timers = {}
  /\ cycles = EmptyMap
  /\ cycleSeq = 0
  /\ stops = {}
  /\ closing = FALSE
  /\ exited = FALSE
  /\ checks = 0
  /\ checkSeq = 0
  /\ unhandled = FALSE
  /\ appended = {}
  /\ failed = {}
  /\ awaited = {}
  /\ diskOp = NULL
  /\ probe = NULL
  /\ pending = NULL
  /\ outcome = NULL
  /\ applied = NULL
  /\ intervalEnv = UNSET
  /\ startTime = toISOString(InitNow)
  /\ response = NULL

NextPure ==
  \/ \E status \in ClassifyStatuses, message \in Messages :
       classifyCall(status, message)

SpecPure == InitPure /\ [][NextPure]_vars

----
\* Properties of the pure functions (checked under SpecPure).

\* A message mentions a word when it holds it, in lower or in upper case.
mentions(message, word) == \E w \in message : w.word = word

\* C21: classifyError gives the first kind that matches, in this order:
\* status 429 rate_limit; status 403 forbidden; status >= 500 server_error;
\* status 0 or a message mentioning "timeout" timeout; a message mentioning
\* "fetch", "network" or "econnrefused" network; otherwise unknown.
C21_ClassifyOrder ==
  (applied # NULL /\ applied.fn = "classifyError")
    => LET st == applied.status
           m == applied.message
       IN applied.result =
            (CASE st = 429 -> "rate_limit"
               [] st # 429 /\ st = 403 -> "forbidden"
               [] st \notin {429, 403} /\ st >= 500 -> "server_error"
               [] st \notin {429, 403} /\ st < 500
                    /\ (st = 0 \/ mentions(m, "timeout")) -> "timeout"
               [] st \notin {429, 403, 0} /\ st < 500
                    /\ ~mentions(m, "timeout")
                    /\ (\/ mentions(m, "fetch")
                        \/ mentions(m, "network")
                        \/ mentions(m, "econnrefused")) -> "network"
               [] OTHER -> "unknown")

\* classifyError was called with status 503 and a message that mentions
\* "timeout" in upper case and "network": the status decides, server_error.
C21_Witness ==
  /\ applied # NULL
  /\ applied.fn = "classifyError"
  /\ applied.status = 503
  /\ applied.message = {[word |-> "timeout", upper |-> TRUE],
                        [word |-> "network", upper |-> FALSE]}
  /\ applied.result = "server_error"

----
\* Claims about the steps of one check (SpecProbe).

\* The hash of the target is in none of the items of the list, letter case
\* set aside.
hashAbsent(items, hash) ==
  \A k \in 1..Len(items) :
    "hash" \notin DOMAIN items[k]
      \/ toLowerCase(items[k].hash) # toLowerCase(hash)

\* C22: a check by hash whose cache-list call fails, or whose hash is not in
\* the returned list (compared without regard to case), gives a record with
\* success = false and failureStep = cache_not_in_account.
C22_CacheNotInAccount ==
  (/\ outcome # NULL
   /\ outcome.target.type = "hash"
   /\ outcome.list # NULL
   /\ \/ ~outcome.list.success
      \/ "items" \notin DOMAIN outcome.list
      \/ hashAbsent(outcome.list.items, outcome.target.hash))
    => /\ ~outcome.record.success
       /\ "failureStep" \in DOMAIN outcome.record
       /\ outcome.record.failureStep = "cache_not_in_account"

\* C23: a check by URL whose URL yields no identifier, whose downloads-list
\* call fails, or whose identifier is not in the downloads list gives a
\* record with success = false and failureStep = download_not_found, and no
\* probe has been issued.
idAbsent(o) ==
  \/ parseDownloadId(o.target.url) = NULL
  \/ o.list = NULL
  \/ ~o.list.success
  \/ "downloads" \notin DOMAIN o.list
  \/ \A k \in 1..Len(o.list.downloads) :
       o.list.downloads[k].id # parseDownloadId(o.target.url).id
C23_DownloadNotFound ==
  (outcome # NULL /\ outcome.target.type = "download" /\ idAbsent(outcome))
    => /\ ~outcome.record.success
       /\ "failureStep" \in DOMAIN outcome.record
       /\ outcome.record.failureStep = "download_not_found"
       /\ ~outcome.probed
       /\ outcome.head = NULL
C23_Witness ==
  /\ outcome # NULL
  /\ outcome.target.type = "download"
  /\ outcome.list # NULL
  /\ outcome.list.success
  /\ idAbsent(outcome)
  /\ outcome.record.failureStep = "download_not_found"

\* C24: a check issues only reading and resolving requests (cache list,
\* cache info, downloads list, unrestrict link, HEAD and GET probes): never
\* addMagnet, selectFiles or deleteFromCache.
ReadOnlyCalls ==
  {"getCacheList", "getCacheInfo", "getDownloadsList", "unrestrictLink",
   "HEAD", "GET"}
C24_ReadOnly == pending # NULL => pending.call \in ReadOnlyCalls
C24_Witness ==
  /\ pending # NULL
  /\ pending.call = "unrestrictLink"
  /\ probe.target.type = "hash"

----
\* Claims about the record of a cycle (Spec, SpecStore).

\* The record that the last append left at the end of the file.
lastStored(f) == parse(f.lines[Len(f.lines)])
configuredIds == {config.streams[k] : k \in 1..Len(config.streams)}

stampOf(id) ==
  IF id \in DOMAIN cycles THEN cycles[id].entry.timestamp
  ELSE toISOString(now)

\* C26: when a cycle has appended its record, lastRun is the timestamp of
\* that record and lastError is null; when a cycle has failed with an
\* exception, lastError is the message of that exception.
C26_StateAfterCycle ==
  [][/\ \A id \in appended' \ appended :
          lastRun' = stampOf(id) /\ lastError' = NULL
     /\ \A id \in failed' \ failed :
          lastError' = [text |-> "EACCES"]]_vars

\* A cycle failed, and a later cycle, begun after the clock advanced,
\* appended its record: the error is cleared and lastRun is the later stamp.
C26_Witness ==
  /\ failed # {}
  /\ appended # {}
  /\ lastError = NULL
  /\ lastRun = toISOString(InitNow + TickMs)

\* C29: a cycle that completes without an exception appends exactly one
\* record: the stored history is the one before, pruned, followed by one
\* record with the stamp of the cycle; this also holds of a cycle that ran
\* no check. No step appends for two cycles, no cycle appends twice, and the
\* file changes only when a cycle appends.
C29_OneRecordPerCycle ==
  [][/\ Cardinality(appended' \ appended) <= 1
     /\ appended \subseteq appended'
     /\ \A id \in appended' \ appended :
          LET kept == prune(loadEntries(file), now)
              after == loadEntries(file')
          IN /\ Len(after) = Len(kept) + 1
             /\ SubSeq(after, 1, Len(kept)) = kept
             /\ after[Len(after)].timestamp = stampOf(id)
     /\ (appended' = appended => file' = file)]_vars

\* A cycle that ran no check has appended a record holding its timestamp
\* only, after the record of an earlier run.
C29_Witness ==
  /\ appended # {}
  /\ (~token \/ (~config.apiCheck /\ Len(config.streams) = 0))
  /\ Len(loadEntries(file)) >= 2
  /\ DOMAIN lastStored(file) = {"timestamp"}

\* C30: the record of a cycle has an api field exactly when the API check
\* is enabled and a token is set, and a streams field exactly when at least
\* one target is configured and a token is set; without a token the cycle
\* appends a record with its timestamp only and sets no error.
C30_OptionalFields ==
  [][\A id \in appended' \ appended :
       LET e == lastStored(file')
       IN /\ ("api" \in DOMAIN e) <=> (config.apiCheck /\ token)
          /\ ("streams" \in DOMAIN e) <=> (Len(config.streams) > 0 /\ token)
          /\ (~token => DOMAIN e = {"timestamp"} /\ lastError' = NULL)]_vars

\* Both checks are configured and no token is set: the cycle has appended a
\* record without either field.
C30_Witness ==
  /\ appended # {}
  /\ ~token
  /\ config.apiCheck
  /\ Len(config.streams) > 0
  /\ file.exists /\ Len(loadEntries(file)) > 0
  /\ DOMAIN lastStored(file) = {"timestamp"}
  /\ lastError = NULL

----
\* api/routes.ts: the read handlers, and a caller of getSchedulerState that
\* writes to the object it got, beside one scheduler and the on-demand check.

MaxApiCycles == 2

\* The state object of the scheduler (scheduler.ts lines 17-21).
state == [lastRun |-> lastRun, lastError |-> lastError, startTime |-> startTime]

\* getSchedulerState (lines 27-29): { ...state } is a new object with the
\* fields of state. alias tells whether the object returned is state itself.
\* Faulty variant: state itself is returned.
getSchedulerStateSame(st) == [alias |-> TRUE, value |-> st]
getSchedulerState(st) == [alias |-> FALSE, value |-> st]

\* handleHealth (routes.ts lines 70-82).
handleHealth(st, t) ==
  [status |-> 200,
   body |-> stringify([uptimeMs |-> t - getTime(st.startTime),
                       startTime |-> st.startTime,
                       lastRun |-> st.lastRun,
                       lastError |-> st.lastError])]

\* handleStatusCurrent (lines 10-17).
handleStatusCurrent(f, t) ==
  LET entries == readAll(f, t)
  IN IF Len(entries) > 0
     THEN [status |-> 200, body |-> stringify(entries[Len(entries)])]
     ELSE [status |-> 404, body |-> stringify([error |-> "no data yet"])]

\* handleStatusHistory (lines 19-40). A query parameter is UNSET or a
\* string; a bound that is no date is ignored; a stream id is [id |-> s],
\* and " ".trim() is empty. The body is a JSON array: [array |-> items].
trim(s) == IF s = " " THEN "" ELSE s
hasStream(e, sid) == "streams" \in DOMAIN e /\ sid \in DOMAIN e.streams
handleStatusHistory(f, t, from, to, streamId) ==
  LET all == readAll(f, t)
      lower == IF from # UNSET /\ getTime(from) # NaN
               THEN SelectSeq(all, LAMBDA e :
                                getTime(e.timestamp) >= getTime(from))
               ELSE all
      entries == IF to # UNSET /\ getTime(to) # NaN
                 THEN SelectSeq(lower, LAMBDA e :
                                  getTime(e.timestamp) <= getTime(to))
                 ELSE lower
  IN IF streamId # UNSET /\ trim(streamId.id) # ""
     THEN LET with == SelectSeq(entries,
                                LAMBDA e : hasStream(e, streamId.id))
          IN [status |-> 200,
              body |-> stringify(
                [array |-> [k \in 1..Len(with) |->
                              [timestamp |-> with[k].timestamp]
                                @@ with[k].streams[streamId.id]]])]
     ELSE [status |-> 200, body |-> stringify([array |-> entries])]

\* The query parameters of GET /status/history: a lower bound and a stream;
\* a lower bound that is no date, an upper bound and a blank stream.
Queries ==
  { [from |-> toISOString(InitNow), to |-> UNSET, streamId |-> [id |-> "a"]],
    [from |-> [text |-> "soon"], to |-> toISOString(InitNow),
     streamId |-> [id |-> " "]] }

\* What a holder of the object returned by getSchedulerState may assign.
Writes == { [field |-> "lastError", value |-> [text |-> "edited"]] }

\* The handlers write the answer and nothing else.
apiFrame ==
  UNCHANGED <<now, token, config, file, timeoutId, inFlight, stopping, timers,
              cycles, cycleSeq, stops, closing, exited, checks, checkSeq,
              unhandled, appended, failed, awaited, diskOp, probe, pending,
              outcome, applied, intervalEnv, streamsJson, cachedStreamsConfig>>
stateFrame == UNCHANGED <<lastRun, lastError, startTime>>

\* GET /health.
healthRequest ==
  /\ response' = [fn |-> "handleHealth",
                  result |-> handleHealth(getSchedulerState(state).value, now)]
  /\ stateFrame
  /\ apiFrame

\* GET /status/current.
currentRequest ==
  /\ response' = [fn |-> "handleStatusCurrent",
                  result |-> handleStatusCurrent(file, now)]
  /\ stateFrame
  /\ apiFrame

\* GET /status/history?from=&to=&streamId=.
historyRequest(from, to, streamId) ==
  /\ response' = [fn |-> "handleStatusHistory",
                  result |-> handleStatusHistory(file, now, from, to, streamId)]
  /\ stateFrame
  /\ apiFrame

\* A module calls getSchedulerState() and keeps the object.
getSchedulerStateCall ==
  /\ response' = [fn |-> "getSchedulerState",
                  result |-> getSchedulerState(state)]
  /\ stateFrame
  /\ apiFrame

\* The holder of that object assigns to one of its fields: the assignment
\* reaches the state of the scheduler when the object is the state itself.
snapshotWrite(w) ==
  /\ response # NULL
  /\ response.fn = "getSchedulerState"
  /\ LET written == [response.result.value EXCEPT ![w.field] = w.value]
         st == IF response.result.alias THEN written ELSE state
     IN /\ response' = [response EXCEPT !.result.value = written]
        /\ lastRun' = st.lastRun
        /\ lastError' = st.lastError
        /\ startTime' = st.startTime
  /\ apiFrame

\* One configuration with an API check and a target, a token or none, the
\* history of an earlier run.
InitApi ==
  /\ Init
  /\ config = [apiCheck |-> TRUE, streams |-> <<"a">>]
  /\ file = [exists |-> TRUE, lines |-> <<OldLine, MidLine>>]

NextApi ==
  \/ cycleSeq < MaxApiCycles /\ start
  \/ cycleSeq < MaxApiCycles /\ \E t \in timers : timerFires(t)
  \/ \E id \in DOMAIN cycles, res \in ApiResults : apiDone(id, res)
  \/ \E id \in DOMAIN cycles, res \in StreamResults \cup {THROW} :
       streamDone(id, res)
  \/ checkApiBegin
  \/ \E res \in ApiResults, wrote \in BOOLEAN : checkApiDone(res, wrote)
  \/ healthRequest
  \/ currentRequest
  \/ \E q \in Queries : historyRequest(q.from, q.to, q.streamId)
  \/ getSchedulerStateCall
  \/ \E w \in Writes : snapshotWrite(w)

SpecApi == InitApi /\ [][NextApi]_vars

\* C27: the state of the scheduler is changed by its cycles only. lastRun
\* and lastError change only in a step in which a cycle completes, and
\* startTime never changes: so a write to the object that getSchedulerState
\* returned changes none of them; a step of a handler (a read handler
\* answering, the on-demand check beginning or appending) starts no cycle
\* and arms no timer.
C27_OnlyCyclesWriteState ==
  [][/\ (lastRun' # lastRun \/ lastError' # lastError)
          => (appended' # appended \/ failed' # failed)
     /\ startTime' = startTime
     /\ (response' # response \/ checks' # checks \/ checkSeq' # checkSeq)
          => /\ cycleSeq' = cycleSeq
             /\ cycles' = cycles
             /\ inFlight' = inFlight
             /\ timers' = timers
             /\ appended' = appended
             /\ failed' = failed]_vars

\* A cycle has run and an on-demand check has appended; a caller has changed
\* lastError of the object it got, and the state has not changed.
C27_Witness ==
  /\ response # NULL
  /\ response.fn = "getSchedulerState"
  /\ response.result.value.lastError = [text |-> "edited"]
  /\ lastError = NULL
  /\ lastRun # NULL
  /\ startTime = toISOString(InitNow)
  /\ checkSeq > 0 /\ checks = 0

----
\* The scheduler while process.env.CHECK_INTERVAL_SECONDS is changed at run
\* time.

MaxTimerCycles == 2

\* Values of CHECK_INTERVAL_SECONDS: unset, empty, 60, 0, -5, abc, 90s,
\* and 2147484 (24 days and 20 hours).
EnvValues ==
  { UNSET,
    [value |-> <<>>],
    [value |-> <<"6", "0">>],
    [value |-> <<"0">>],
    [value |-> <<"-", "5">>],
    [value |-> <<"a", "b", "c">>],
    [value |-> <<"9", "0", "s">>],
    [value |-> <<"2", "1", "4", "7", "4", "8", "4">>] }

\* The variable is assigned, or deleted, while the process runs.
envChange(raw) ==
  /\ ~exited
  /\ raw # intervalEnv
  /\ intervalEnv' = raw
  /\ UNCHANGED <<now, token, config, stopping, stops, closing, exited,
                 checks, checkSeq, awaited>>
  /\ UNCHANGED cycleVars
  /\ UNCHANGED <<diskOp, probe, pending, outcome, applied, startTime,
                 response, streamsJson>>

\* An API check and no target, a token, no history.
InitTimer ==
  /\ Init
  /\ token
  /\ config = [apiCheck |-> TRUE, streams |-> <<>>]
  /\ file = MISSING

NextTimer ==
  \/ cycleSeq < MaxTimerCycles /\ start
  \/ cycleSeq < MaxTimerCycles /\ \E t \in timers : timerFires(t)
  \/ \E id \in DOMAIN cycles, res \in ApiResults : apiDone(id, res)
  \/ \E raw \in EnvValues : envChange(raw)

SpecTimer == InitTimer /\ [][NextTimer]_vars

\* C28: the delay of a timer is the interval configured when the timer is
\* armed, in milliseconds; a change of the interval leaves the pending timer
\* as it is.
C28_DelayIsIntervalAtArming ==
  [][/\ \A t \in timers' \ timers :
          /\ t.delay % 1000 = 0
          /\ t.delay \div 1000 = getCheckIntervalSeconds(intervalEnv)
     /\ (intervalEnv' # intervalEnv => timers' = timers)]_vars

----
\* The scheduler while streams.json is edited at run time.

MaxConfigCycles == 2

\* What the file may be changed to: the files of StreamsFiles, a text that
\* is no JSON, a value without the apiCheck flag.
EditedFiles ==
  StreamsFiles
    \cup { [exists |-> TRUE, text |-> Garbage],
           StreamsJson([streams |-> <<ItemA>>]) }

\* streams.json is written, or removed: from now on getStreamsConfig()
\* returns the cached value if there is one, else what it reads from f.
streamsJsonChange(f) ==
  /\ ~exited
  /\ f # streamsJson
  /\ streamsJson' = f
  /\ config' = getStreamsConfig(cachedStreamsConfig, f)
  /\ UNCHANGED <<now, token, stopping, stops, closing, exited, checks,
                 checkSeq, awaited>>
  /\ UNCHANGED cycleVars
  /\ UNCHANGED <<diskOp, probe, pending, outcome, applied, intervalEnv,
                 startTime, response>>

\* A token, no history.
InitConfig ==
  /\ Init
  /\ token
  /\ file = MISSING

NextConfig ==
  \/ cycleSeq < MaxConfigCycles /\ start
  \/ cycleSeq < MaxConfigCycles /\ \E t \in timers : timerFires(t)
  \/ \E id \in DOMAIN cycles, res \in ApiResults : apiDone(id, res)
  \/ \E id \in DOMAIN cycles, res \in StreamResults \cup {THROW} :
       streamDone(id, res)
  \/ \E f \in EditedFiles : streamsJsonChange(f)

SpecConfig == InitConfig /\ [][NextConfig]_vars

\* C31: a cycle that begins uses the configuration that streams.json holds
\* at that moment, so a change made to the file between two cycles is used
\* by the later cycle.
C31_ConfigReread ==
  [][cycleSeq' # cycleSeq => config = loadStreamsConfig(streamsJson)]_vars

----
\* Claims about the order of the requests of one check (SpecProbe).

\* The stages of a check by hash, in order; the fallback GETs belong to the
\* probe, the fourth stage.
HashStages == <<"getCacheList", "getCacheInfo", "unrestrictLink", "HEAD">>
HashSteps ==
  <<"cache_not_in_account", "no_links", "unrestrict_failed", "cdn_head_failed">>
stageCount(calls) == IF Len(calls) > 4 THEN 4 ELSE Len(calls)
inStageOrder(calls) ==
  \A k \in 1..Len(calls) :
    IF k <= 4 THEN calls[k] = HashStages[k] ELSE calls[k] = "GET"

\* C32: a check by hash issues its requests in the order cache list, cache
\* info, unrestrict, probe, each after the stage before it succeeded; a
\* failed outcome carries the failureStep of the stage reached last, which
\* is the first stage that failed.
C32_StageOrder ==
  /\ (probe # NULL /\ probe.target.type = "hash")
       => inStageOrder(probe.calls)
  /\ (outcome # NULL /\ outcome.target.type = "hash")
       => /\ inStageOrder(outcome.calls)
          /\ outcome.calls # <<>>
          /\ ~outcome.record.success
               => /\ "failureStep" \in DOMAIN outcome.record
                  /\ outcome.record.failureStep
                       = HashSteps[stageCount(outcome.calls)]

\* C33: a probe issues at most one fallback GET after its HEAD, and reports
\* status 0 only after a fallback GET has been issued and has failed.
fallbacks(calls) == Cardinality({k \in 1..Len(calls) : calls[k] = "GET"})
C33_OneFallback ==
  /\ probe # NULL => fallbacks(probe.calls) <= 1
  /\ outcome # NULL
       => /\ fallbacks(outcome.calls) <= 1
          /\ (outcome.head # NULL /\ outcome.head.httpStatus = 0)
               => fallbacks(outcome.calls) = 1

----
\* The scheduler with the stream checker under it (checked under SpecStop):
\* the cycle checks the one stream of streams.json by checkStream, whose
\* requests settle when the remote service answers or when their timer
\* fires; stop() polls inFlight meanwhile.
MaxStopCycles == 2

\* The target of stream "a" of streams.json.
TargetA == [type |-> "hash", hash |-> TargetHash]

\* runCheck runs on into checkStream (scheduler.ts line 55) when the cycle
\* just begun stands at its stream loop.
cycleCallsCheckStream ==
  /\ IF /\ cycleSeq' # cycleSeq
        /\ cycleSeq' \in DOMAIN cycles'
        /\ cycles'[cycleSeq'].pc = "stream"
     THEN checkStreamEnter(TargetA)
     ELSE UNCHANGED <<probe, pending, outcome>>
  /\ UNCHANGED <<diskOp, restVars>>

\* start() (lines 137-141) with the cycle it begins run to its first await.
startCycle ==
  /\ cycleSeq < MaxStopCycles
  /\ startSched
  /\ cycleCallsCheckStream

\* The timer of scheduleNext fires (lines 128-134), the cycle it begins run
\* to its first await.
timerCycle(t) ==
  /\ cycleSeq < MaxStopCycles
  /\ timerFiresSched(t)
  /\ cycleCallsCheckStream

\* The promise of checkStream has settled: runCheck resumes after line 55
\* with the result, or in the catch of line 64 with the rejection.
streamResumes(id) ==
  /\ probe = NULL
  /\ outcome # NULL
  /\ streamDone(id, IF outcome.rejected THEN THROW ELSE outcome.record)

InitStop == InitProbe

NextStop ==
  \/ startCycle
  \/ \E t \in timers : timerCycle(t)
  \/ \E r \in FetchResponses \cup {NetworkError} : fetchSettles(r)
  \/ \E body \in Bodies : bodySettles(body)
  \/ timeoutFires
  \/ \E r \in ProbeResponses \cup {NetworkError} : headSettles(r)
  \/ \E r \in ProbeResponses \cup {NetworkError} : getSettles(r)
  \/ \E r \in ProbeResponses \cup {NetworkError} : getCatchSettles(r)
  \/ \E id \in DOMAIN cycles : streamResumes(id)
  \/ shutdown
  \/ \E p \in stops : stopPoll(p)
  \/ exit

\* What the runtime guarantees: a timer that is armed fires (the timer of a
\* bounded request, the 100 ms poll of stop()), a settled promise resumes
\* the function that awaits it, and a closed server calls back. Nothing
\* obliges the remote service to answer: the steps in which a request
\* settles by an answer carry no fairness.
FairStop ==
  /\ WF_vars(timeoutFires)
  /\ WF_vars(\E id \in DOMAIN cycles : streamResumes(id))
  /\ WF_vars(\E p \in stops : stopPoll(p))
  /\ WF_vars(exit)

SpecStop == InitStop /\ [][NextStop]_vars /\ FairStop

\* C34: stop() always eventually resolves: at once when no cycle is in
\* flight, else after the cycle in flight has finished, whatever the remote
\* service does meanwhile.
C34_StopResolves == stopping ~> closing

----
\* Claims about the order of the steps of a cycle (Spec).

\* C35: within a cycle the API check comes first and the targets follow one
\* at a time in the configured order: while the API check is awaited no
\* target has an outcome; while target i is awaited the entry holds the API
\* outcome (when that check is enabled) and the outcomes of exactly the
\* targets before i; each step of the cycle goes from the API check to the
\* first target or from target i to target i + 1; and the record is
\* appended only by the step that ends the check of the last target (or the
\* API check, when no target is checked).
C35_CycleOrder ==
  [][\A id \in DOMAIN cycles :
       LET c == cycles[id]
           n == Len(config.streams)
       IN /\ c.pc = "api" => "streams" \notin DOMAIN c.entry
          /\ c.pc = "stream" =>
               /\ (config.apiCheck /\ token) => "api" \in DOMAIN c.entry
               /\ c.i \in 1..n
               /\ DOMAIN c.entry.streams =
                    {config.streams[k] : k \in 1..(c.i - 1)}
          /\ id \in DOMAIN cycles' =>
               \/ cycles'[id] = c
               \/ /\ c.pc = "api"
                  /\ cycles'[id].pc = "stream"
                  /\ cycles'[id].i = 1
               \/ /\ c.pc = "stream"
                  /\ cycles'[id].pc = "stream"
                  /\ cycles'[id].i = c.i + 1
          /\ id \in appended' \cup failed' =>
               \/ c.pc = "stream" /\ c.i = n
               \/ c.pc = "api" /\ (n = 0 \/ ~token)]_vars

\* The second target is being checked: the first one has its outcome.
C35_Witness ==
  \E id \in DOMAIN cycles :
    /\ cycles[id].pc = "stream"
    /\ cycles[id].i = 2
    /\ config.streams = <<"a", "b">>
    /\ DOMAIN cycles[id].entry.streams = {"a"}

----
\* Claims about the on-demand check (SpecStore).

\* What the step in which handleCheckApi resumes after checkUser leaves in
\* the store: the history before, pruned, followed by one record that holds
\* the outcome of the probe and an empty streams mapping.
checkAppended ==
  LET kept == prune(loadEntries(file), now)
      after == loadEntries(file')
  IN /\ Len(after) = Len(kept) + 1
     /\ SubSeq(after, 1, Len(kept)) = kept
     /\ DOMAIN after[Len(after)] = {"timestamp", "api", "streams"}
     /\ after[Len(after)].api \in ApiResults
     /\ after[Len(after)].streams = EmptyMap

\* A request without a token is answered at once: no probe is awaited and
\* the store is left as it is.
noTokenNoProbe ==
  (checkSeq' # checkSeq /\ ~token) => (checks' = checks /\ file' = file)

\* C36: every on-demand check appends exactly one record holding the
\* outcome of the API probe, whether the probe succeeded or failed; without
\* a token no probe is issued and the store is unchanged.
C36_AlwaysOneRecord ==
  [][(checks' < checks => checkAppended) /\ noTokenNoProbe]_vars

\* C36 as it holds: the on-demand check calls append once; when the append
\* returns, exactly one record with the outcome of the probe has been added,
\* whether the probe succeeded or failed, and when the append raises the
\* store is left as it was; without a token no probe is issued and the
\* store is unchanged.
C36_OneRecordUnlessAppendRaises ==
  [][(checks' < checks => (checkAppended \/ file' = file))
     /\ noTokenNoProbe]_vars

\* An on-demand check whose probe failed has appended its record.
C36_Witness ==
  /\ token
  /\ checkSeq > 0
  /\ checks = 0
  /\ file.exists /\ Len(loadEntries(file)) > 0
  /\ IsCheckEntry(lastStored(file))
  /\ ~lastStored(file).api.success

----
\* Claims about the check interval (SpecTimer).

\* The interval that getCheckIntervalSeconds returns for the settings of
\* EnvValues: the value read when parseInt gives an integer of at least 1,
\* else the default.
intervalAtLeastOne ==
  \A raw \in EnvValues :
    LET s == getCheckIntervalSeconds(raw)
    IN /\ s \in Nat /\ s >= 1
       /\ \/ s = DEFAULT_CHECK_INTERVAL_SECONDS
          \/ raw # UNSET /\ parseInt(raw.value).finite
                         /\ s = parseInt(raw.value).n

\* C37: getCheckIntervalSeconds returns an integer of at least 1, the
\* configured value or the default 300, and so the delay of every timer
\* armed for the next cycle is at least 1000 ms.
C37_DelayAtLeastOneSecond ==
  /\ intervalAtLeastOne
  /\ \A t \in timers : t.seconds >= 1 /\ t.delay >= 1000

----
\* Claims about the timer of the scheduler (Spec).

\* C38: from the first start() until stop() is called, a cycle is in flight
\* or a timer for the next cycle is pending.
C38_NeverIdle ==
  (cycleSeq > 0 /\ ~stopping) => (inFlight \/ timers # {})

\* A second cycle is running and no timer is pending: the timer armed by
\* the first completion has fired, during this cycle or to begin it.
C38_Witness ==
  /\ ~stopping
  /\ inFlight
  /\ cycleSeq = 2
  /\ timers = {}
  /\ timeoutId = NULL

\* C39: at most one timer for the next cycle is pending, and it is the one
\* that timeoutId holds.
C39_OneTimer ==
  /\ Cardinality(timers) <= 1
  /\ timers # {} => timers = {timeoutId}
  /\ timers = {} => timeoutId = NULL

\* The second cycle, begun by start() while the timer of the first
\* completion was pending, has completed and armed no second timer.
C39_Witness ==
  /\ ~inFlight
  /\ Cardinality(appended \cup failed) = 2
  /\ \E t \in timers : t.timer = 1
  /\ Cardinality(timers) = 1

----
\* Claims about lastRun (SpecStore).

\* C40: a cycle that ends in the catch block leaves lastRun as it was, and
\* lastRun changes only in the step in which a scheduled cycle appends its
\* record, to the timestamp of that record; so lastRun is null or the
\* timestamp of a record that a scheduled cycle appended.
C40_LastRunOnlyOnAppend ==
  [][/\ failed' # failed => lastRun' = lastRun
     /\ lastRun' # lastRun =>
          \E id \in appended' \ appended : lastRun' = stampOf(id)]_vars

\* After the first cycle appended its record, time passed and the second
\* cycle failed: lastRun is still the timestamp of the stored record.
C40_Witness ==
  /\ 1 \in appended
  /\ 2 \in failed
  /\ lastError # NULL
  /\ lastRun # NULL
  /\ getTime(lastRun) < now
  /\ file.exists
  /\ \E k \in 1..Len(file.lines) :
       parses(file.lines[k]) /\ parse(file.lines[k]).timestamp = lastRun

====
